---- MODULE Spec2Model ----
(***************************************************************************)
(* A model of the NSDictionary class cluster of touchHLE                   *)
(* (src/frameworks/foundation/ns_dictionary.rs): DictionaryHostObject, the *)
(* collision-bucket map behind _touchHLE_NSDictionary and                  *)
(* NSMutableDictionary, and the Objective-C methods that wrap it.          *)
(*                                                                         *)
(* One dictionary object is modelled over its life: allocation, one of the *)
(* initialisers, the NSMutableDictionary mutators, the readers, fast       *)
(* enumeration and dealloc.  Keys are NSNumber objects holding Int values  *)
(* (ns_value.rs), so that `hash` and `isEqualTo:` are the ones of the      *)
(* repository; values are opaque objects or nil.  Reference counting is    *)
(* modelled by counting, per object, the retain, copy and release calls    *)
(* the dictionary code issues.  A second specification, SpecCopy, gives    *)
(* the dictionary keys of a class with a mutable member, whose `copy` is   *)
(* an object of its own.                                                   *)
(***************************************************************************)
EXTENDS Integers, Sequences, FiniteSets, TLC

\* ------------------------------------------------------------------ bounds
\* Key objects are 1..NumKeys, value objects NumKeys+1..NumKeys+NumValues.
NumKeys == 4
NumValues == 2
\* At most MaxInserts calls of insert over the dictionary's life.
MaxInserts == 3
\* Largest stack buffer handed to countByEnumeratingWithState:objects:count:.
MaxLen == 2
\* The mutable key object holds one of the contents 1..NumContents.
NumContents == 2

\* ----------------------------------------------------------------- objects
\* The null object pointer.
nil == 0

KeyObjects == 1..NumKeys
ValueObjects == (NumKeys + 1)..(NumKeys + NumValues)

\* Keys of a class with a mutable member (as NSString is with
\* NSMutableString): the mutable key object, the immutable objects its
\* `copy` returns (one for each content it can hold when copied), and
\* immutable key objects made with a content of their own.
MutableKey == NumKeys + NumValues + 1
CopyOf(content) == MutableKey + content
Literal(content) == MutableKey + NumContents + content
TextObjects == MutableKey..(MutableKey + 2 * NumContents)

Objects == KeyObjects \cup ValueObjects \cup TextObjects

\* What the mutable key object holds now.
VARIABLE mutable

\* The content of a key object of that class.
text(this) ==
    IF this = MutableKey THEN mutable
    ELSE IF this <= MutableKey + NumContents THEN this - MutableKey
    ELSE this - MutableKey - NumContents

\* The Int held by each key object, set once by initWithInteger:.  Keys 1
\* and 2 are two distinct objects holding the same number; the others hold
\* numbers of their own.
initWithInteger(this) == IF this <= 2 THEN 1 ELSE this - 1

\* super::hash_helper: not injective.  Here 1 and 2 collide, as do 3, 4, 5.
hash_helper(value) == value \div 3

\* -[NSNumber hash] for the Int variant.
NSNumber_hash(this) == hash_helper(initWithInteger(this))

\* -[NSNumber isEqualTo:] for the Int variant.
NSNumber_isEqualTo(this, other) ==
    IF this = other THEN TRUE
    ELSE IF other \notin KeyObjects THEN FALSE
    ELSE initWithInteger(this) = initWithInteger(other)

\* hash and isEqualTo: of the class with the mutable member go by content.
Text_hash(this) == text(this)

Text_isEqualTo(this, other) ==
    IF this = other THEN TRUE
    ELSE IF other \notin TextObjects THEN FALSE
    ELSE text(this) = text(other)

\* msg![env; key hash]; a message to nil returns 0.
hash(this) ==
    IF this = nil THEN 0
    ELSE IF this \in TextObjects THEN Text_hash(this)
    ELSE NSNumber_hash(this)

\* msg![env; candidate_key isEqualTo:key]; a message to nil returns false.
isEqualTo(this, other) ==
    IF this = nil THEN FALSE
    ELSE IF this \in TextObjects THEN Text_isEqualTo(this, other)
    ELSE NSNumber_isEqualTo(this, other)

\* ------------------------------------------------------ reference counting
\* The calls issued so far on each object.
NoCalls == [retains  |-> [o \in Objects |-> 0],
            copies   |-> [o \in Objects |-> 0],
            releases |-> [o \in Objects |-> 0]]

\* objc::retain and objc::release: no-ops on nil.
retain(env, object) ==
    IF object = nil THEN env ELSE [env EXCEPT !.retains[object] = @ + 1]

release(env, object) ==
    IF object = nil THEN env ELSE [env EXCEPT !.releases[object] = @ + 1]

\* The copy of the mutable key object is the immutable object of its
\* content; an immutable object is its own copy.
Text_copy(this) == IF this = MutableKey THEN CopyOf(mutable) ELSE this

\* -[NSValue copyWithZone:] returns the receiver itself.
NSValue_copy(this) == this

\* The object msg![env; key copy] returns; a message to nil returns nil.
copy(this) ==
    IF this = nil THEN nil
    ELSE IF this \in TextObjects THEN Text_copy(this)
    ELSE NSValue_copy(this)

\* The calls of msg![env; key copy]: the copy is sent, and the object it
\* returns comes with a reference for the caller (for an NSValue, a retain
\* of the receiver); a message to nil does nothing.
copyWithZone(env, this) ==
    IF this = nil THEN env
    ELSE retain([env EXCEPT !.copies[this] = @ + 1], copy(this))

\* ----------------------------------------------------- DictionaryHostObject
\* map: hash -> sequence of <<key, value>>; order: the sequence in which the
\* HashMap iterates over its hash values; count.
Default == [map |-> <<>>, order |-> <<>>, count |-> 0]

\* The index of the first entry of a bucket whose key is `key` or equal to
\* it, 0 when there is none.
FirstMatch(collisions, key) ==
    LET hits == {i \in 1..Len(collisions) :
                    collisions[i][1] = key \/ isEqualTo(collisions[i][1], key)}
    IN IF hits = {} THEN 0 ELSE CHOOSE i \in hits : \A j \in hits : i <= j

\* lookup without the isEqualTo: test: a key is found only by identity.
lookup_by_identity(self, key) ==
    LET h == hash(key) IN
    IF h \notin DOMAIN self.map THEN nil
    ELSE LET collisions == self.map[h]
             hits == {i \in 1..Len(collisions) : collisions[i][1] = key}
         IN IF hits = {} THEN nil
            ELSE collisions[CHOOSE i \in hits : \A j \in hits : i <= j][2]

\* lookup that takes the first entry of the key's bucket for the key's.
lookup_first_of_bucket(self, key) ==
    IF hash(key) \notin DOMAIN self.map THEN nil
    ELSE self.map[hash(key)][1][2]

lookup(self, key) ==
    LET h == hash(key) IN
    IF h \notin DOMAIN self.map THEN nil
    ELSE LET collisions == self.map[h]
             i == FirstMatch(collisions, key)
         IN IF i = 0 THEN nil ELSE collisions[i][2]

\* All sequences that list every element of S exactly once.
Orders(S) ==
    {s \in [1..Cardinality(S) -> S] : \A x \in S : \E i \in DOMAIN s : s[i] = x}

\* The steps of insert.  First the key is copied or retained and the value
\* is retained.
Taken(env, key, value, copy_key) ==
    retain(IF copy_key THEN copyWithZone(env, key) ELSE retain(env, key), value)

\* A pair goes into a new bucket when the map has none for the key's hash,
\* and else to the end of that bucket; count grows by one.
Pushed(self, key, value, ord) ==
    IF hash(key) \notin DOMAIN self.map
    THEN [map   |-> self.map @@ (hash(key) :> << <<key, value>> >>),
          order |-> ord,
          count |-> self.count + 1]
    ELSE [self EXCEPT !.map[hash(key)] = Append(@, <<key, value>>),
                      !.count = @ + 1]

\* The scan of the key's bucket: the index of the entry to overwrite, 0 when
\* the pair is to be pushed.
Found(self, key) ==
    IF hash(key) \notin DOMAIN self.map THEN 0
    ELSE FirstMatch(self.map[hash(key)], key)

\* insert without the `return` that ends the overwrite: the value is
\* replaced and the pair is pushed as well.
insert_no_return(self, env, key, value, copy_key, ord) ==
    LET h == hash(key)
        i == Found(self, key)
    IN IF i = 0
       THEN [self |-> Pushed(self, key, value, ord),
             env  |-> Taken(env, key, value, copy_key)]
       ELSE [self |-> Pushed([self EXCEPT !.map[h][i][2] = value], key, value, ord),
             env  |-> release(Taken(env, key, value, copy_key), self.map[h][i][2])]

\* insert that counts calls: count grows on the overwrite too.
insert_counting_calls(self, env, key, value, copy_key, ord) ==
    LET h == hash(key)
        i == Found(self, key)
    IN IF i = 0
       THEN [self |-> Pushed(self, key, value, ord),
             env  |-> Taken(env, key, value, copy_key)]
       ELSE [self |-> [self EXCEPT !.map[h][i][2] = value, !.count = @ + 1],
             env  |-> release(Taken(env, key, value, copy_key), self.map[h][i][2])]

\* insert that takes the first entry of the bucket for the key's own,
\* whatever its key.
insert_overwrite_first(self, env, key, value, copy_key, ord) ==
    LET h == hash(key) IN
    IF h \notin DOMAIN self.map
    THEN [self |-> Pushed(self, key, value, ord),
          env  |-> Taken(env, key, value, copy_key)]
    ELSE [self |-> [self EXCEPT !.map[h][1][2] = value],
          env  |-> release(Taken(env, key, value, copy_key), self.map[h][1][2])]

\* insert whose scan compares pointers only, without isEqualTo:.
insert_scan_identity(self, env, key, value, copy_key, ord) ==
    LET h == hash(key)
        hits == IF h \in DOMAIN self.map
                THEN {i \in 1..Len(self.map[h]) : self.map[h][i][1] = key}
                ELSE {}
    IN IF hits = {}
       THEN [self |-> Pushed(self, key, value, ord),
             env  |-> Taken(env, key, value, copy_key)]
       ELSE LET i == CHOOSE x \in hits : \A y \in hits : x <= y
            IN [self |-> [self EXCEPT !.map[h][i][2] = value],
                env  |-> release(Taken(env, key, value, copy_key), self.map[h][i][2])]

\* insert that releases the value it was given in place of the one it
\* replaces.
insert_release_new(self, env, key, value, copy_key, ord) ==
    LET h == hash(key)
        i == Found(self, key)
    IN IF i = 0
       THEN [self |-> Pushed(self, key, value, ord),
             env  |-> Taken(env, key, value, copy_key)]
       ELSE [self |-> [self EXCEPT !.map[h][i][2] = value],
             env  |-> release(Taken(env, key, value, copy_key), value)]

\* insert that on an overwrite stores the key it was given with the value.
insert_replace_key(self, env, key, value, copy_key, ord) ==
    LET h == hash(key)
        i == Found(self, key)
    IN IF i = 0
       THEN [self |-> Pushed(self, key, value, ord),
             env  |-> Taken(env, key, value, copy_key)]
       ELSE [self |-> [self EXCEPT !.map[h][i] = <<key, value>>],
             env  |-> release(Taken(env, key, value, copy_key), self.map[h][i][2])]

\* insert that puts a new pair at the head of its bucket.
insert_push_front(self, env, key, value, copy_key, ord) ==
    LET h == hash(key)
        i == Found(self, key)
    IN IF i = 0
       THEN [self |-> IF h \in DOMAIN self.map
                      THEN [self EXCEPT !.map[h] = << <<key, value>> >> \o @,
                                        !.count = @ + 1]
                      ELSE Pushed(self, key, value, ord),
             env  |-> Taken(env, key, value, copy_key)]
       ELSE [self |-> [self EXCEPT !.map[h][i][2] = value],
             env  |-> release(Taken(env, key, value, copy_key), self.map[h][i][2])]

\* insert that retains the key it is given whatever copy_key says.
insert_retain_only(self, env, key, value, copy_key, ord) ==
    LET h == hash(key)
        i == Found(self, key)
    IN IF i = 0
       THEN [self |-> Pushed(self, key, value, ord),
             env  |-> Taken(env, key, value, FALSE)]
       ELSE [self |-> [self EXCEPT !.map[h][i][2] = value],
             env  |-> release(Taken(env, key, value, FALSE), self.map[h][i][2])]

\* insert returns the host object and the reference counts after the call.
\* `ord` is the order in which the HashMap iterates once a new hash value
\* has been added to it (any order: the table may have been rebuilt).
\* From its first statement on, `key` is the copy when copy_key is set.
insert(self, env, key, value, copy_key, ord) ==
    LET k == IF copy_key THEN copy(key) ELSE key
        h == hash(k)
        i == Found(self, k)
    IN IF i = 0
       THEN [self |-> Pushed(self, k, value, ord),
             env  |-> Taken(env, key, value, copy_key)]
       ELSE [self |-> [self EXCEPT !.map[h][i][2] = value],
             env  |-> release(Taken(env, key, value, copy_key), self.map[h][i][2])]

\* DictionaryHostObject::release: one release of the key and one of the value
\* of every entry of every bucket.
RECURSIVE release_collisions(_, _)
release_collisions(collisions, env) ==
    IF collisions = <<>> THEN env
    ELSE release_collisions(Tail(collisions),
                            release(release(env, Head(collisions)[1]),
                                    Head(collisions)[2]))

RECURSIVE release_buckets(_, _, _)
release_buckets(self, hashes, env) ==
    IF hashes = <<>> THEN env
    ELSE release_buckets(self, Tail(hashes),
                         release_collisions(self.map[Head(hashes)], env))

\* release that stops after the first entry of each bucket.
release_first_of_buckets(self, env) ==
    release_buckets([self EXCEPT !.map = [h \in DOMAIN self.map |->
                                             <<self.map[h][1]>>]],
                    self.order, env)

DictionaryHostObject_release(self, env) == release_buckets(self, self.order, env)

\* A handler that works on the host object where it is, leaving it in the
\* object.
borrow_in_place(self) == [taken |-> self, left |-> self]

\* std::mem::take on the object's host object: the handler gets the host
\* object and the object is left with the default one.
take(self) == [taken |-> self, left |-> Default]

\* DictionaryHostObject::iter_keys: map.values().flatten(), keys only.
RECURSIVE flatten_keys(_, _)
flatten_keys(self, hashes) ==
    IF hashes = <<>> THEN <<>>
    ELSE [i \in 1..Len(self.map[Head(hashes)]) |-> self.map[Head(hashes)][i][1]]
         \o flatten_keys(self, Tail(hashes))

\* An iteration that yields the first key of each bucket only.
iter_first_keys(self) == [i \in 1..Len(self.order) |-> self.map[self.order[i]][1][1]]

iter_keys(self) == flatten_keys(self, self.order)

\* countByEnumeratingWithState:objects:count: that leaves the size of the
\* batch in the cursor.
countByEnumerating_cursor_is_batch(self, start_index, len) ==
    IF self.count = 0
    THEN [ret |-> 0, objects |-> <<>>, state |-> start_index]
    ELSE LET rest == IF start_index >= Len(self.order) THEN 0
                     ELSE Len(self.order) - start_index
             batch_count == IF len < rest THEN len ELSE rest
         IN [ret     |-> batch_count,
             objects |-> [i \in 1..batch_count |->
                             self.map[self.order[start_index + i]][1][1]],
             state   |-> batch_count]

\* countByEnumeratingWithState:objects:count: that does not skip the
\* start_index buckets already enumerated.
countByEnumerating_no_skip(self, start_index, len) ==
    IF self.count = 0
    THEN [ret |-> 0, objects |-> <<>>, state |-> start_index]
    ELSE LET rest == Len(self.order)
             batch_count == IF len < rest THEN len ELSE rest
         IN [ret     |-> batch_count,
             objects |-> [i \in 1..batch_count |-> self.map[self.order[i]][1][1]],
             state   |-> start_index + batch_count]

\* -[NSMutableDictionary countByEnumeratingWithState:objects:count:] on the
\* host object: the return value, the keys written to stackbuf, and the
\* cursor left in the NSFastEnumerationState.
countByEnumeratingWithState(self, start_index, len) ==
    IF self.count = 0
    THEN [ret |-> 0, objects |-> <<>>, state |-> start_index]
    ELSE LET rest == IF start_index >= Len(self.order) THEN 0
                     ELSE Len(self.order) - start_index
             batch_count == IF len < rest THEN len ELSE rest
         IN [ret     |-> batch_count,
             objects |-> [i \in 1..batch_count |->
                             self.map[self.order[start_index + i]][1][1]],
             state   |-> start_index + batch_count]

\* ------------------------------------------------------------------- state
VARIABLES
    phase,    \* "alloc", "building" (inside init_with_objects_and_keys), "ready", "dead"
    dict,     \* the DictionaryHostObject (the local host_object while building)
    env,      \* the retain, copy and release calls issued so far, per object
    inserts,  \* calls of insert so far
    fe,       \* the caller's fast enumeration: its cursor and what it got
    last,     \* the call that led to this state, with the state before it
    state     \* what the specifications of the other modules work on

vars == <<phase, dict, env, inserts, fe, last, mutable, state>>

NoCall == [op |-> "none", key |-> nil, value |-> nil, copy_key |-> FALSE,
           result |-> nil, pre |-> Default, preEnv |-> NoCalls]

\* The specifications of the dictionary have nothing in `state`.
NoState == [module |-> "ns_dictionary"]

\* A caller's enumeration that has not begun: cursor 0, nothing received, no
\* call returned yet.
NewEnumeration == [state |-> 0, objects |-> <<>>, ret |-> -1]

Init ==
    /\ phase = "alloc"
    /\ dict = Default
    /\ env = NoCalls
    /\ inserts = 0
    /\ fe = NewEnumeration
    /\ last = NoCall
    /\ mutable = 1
    /\ state = NoState

\* The caller's enumeration after a call that leaves the host object `after`:
\* a caller does not go on enumerating a dictionary that has changed, it
\* starts again from the top.
Enumeration(after) == IF after = dict THEN fe ELSE NewEnumeration

Inserted(op, key, value, copy_key, ord) ==
    LET r == insert(dict, env, key, value, copy_key, ord) IN
    /\ inserts < MaxInserts
    /\ dict' = r.self
    /\ env' = r.env
    /\ inserts' = inserts + 1
    /\ fe' = Enumeration(r.self)
    /\ last' = [op |-> op, key |-> key, value |-> value, copy_key |-> copy_key,
                result |-> nil, pre |-> dict, preEnv |-> env]
    /\ UNCHANGED <<mutable, state>>

\* -[_touchHLE_NSDictionary init]
init ==
    /\ phase = "alloc"
    /\ phase' = "ready"
    /\ dict' = Default
    /\ last' = [NoCall EXCEPT !.op = "init", !.pre = dict, !.preEnv = env]
    /\ UNCHANGED <<env, inserts, fe, mutable, state>>

\* init_with_objects_and_keys: one pair is inserted into the local
\* host_object, the key copied; a nil key is asserted against.
init_with_objects_and_keys(key, object) ==
    /\ phase \in {"alloc", "building"}
    /\ phase' = "building"
    /\ \E ord \in Orders(DOMAIN dict.map \cup {hash(key)}) :
          Inserted("insert", key, object, TRUE, ord)

\* dict_from_keys_and_objects: one pair of the slice is inserted into the
\* local host_object, the key copied; nothing is asserted of the key.
dict_from_keys_and_objects(key, object) ==
    /\ phase \in {"alloc", "building"}
    /\ phase' = "building"
    /\ \E ord \in Orders(DOMAIN dict.map \cup {hash(key)}) :
          Inserted("insert", key, object, TRUE, ord)

\* ... and, the pairs exhausted, the host object is stored in the object.
init_with_objects_and_keys_done ==
    /\ phase = "building"
    /\ phase' = "ready"
    /\ last' = [NoCall EXCEPT !.op = "init", !.pre = dict, !.preEnv = env]
    /\ UNCHANGED <<dict, env, inserts, fe, mutable, state>>

\* -[NSMutableDictionary setValue:forKey:]: value may be nil.
setValue_forKey(value, key) ==
    /\ phase = "ready"
    /\ UNCHANGED phase
    /\ \E ord \in Orders(DOMAIN dict.map \cup {hash(key)}) :
          Inserted("insert", key, value, FALSE, ord)

\* setObject:forKey: that asserts after the insert.
setObject_forKey_assert_late(anObject, key) ==
    /\ phase = "ready"
    /\ phase' = IF anObject = nil \/ key = nil THEN "aborted" ELSE phase
    /\ \E ord \in Orders(DOMAIN dict.map \cup {hash(key)}) :
          Inserted(IF anObject = nil \/ key = nil THEN "abort" ELSE "insert",
                   key, anObject, FALSE, ord)

\* -[NSMutableDictionary setObject:forKey:]: a nil object or a nil key fails
\* an assertion, which ends the program.
setObject_forKey(anObject, key) ==
    /\ phase = "ready"
    /\ IF anObject = nil \/ key = nil
       THEN /\ phase' = "aborted"
            /\ last' = [NoCall EXCEPT !.op = "abort", !.key = key,
                                      !.value = anObject,
                                      !.pre = dict, !.preEnv = env]
            /\ UNCHANGED <<dict, env, inserts, fe, mutable, state>>
       ELSE /\ UNCHANGED phase
            /\ \E ord \in Orders(DOMAIN dict.map \cup {hash(key)}) :
                  Inserted("insert", key, anObject, FALSE, ord)

\* objectForKey: that leaves the object with what std::mem::take left.
objectForKey_not_put_back(key) ==
    LET host_obj == take(dict) IN
    /\ phase = "ready"
    /\ dict' = host_obj.left
    /\ fe' = Enumeration(host_obj.left)
    /\ last' = [NoCall EXCEPT !.op = "lookup", !.key = key,
                              !.result = lookup(host_obj.taken, key),
                              !.pre = dict, !.preEnv = env]
    /\ UNCHANGED <<phase, env, inserts, mutable, state>>

\* -[_touchHLE_NSDictionary objectForKey:]: the host object is taken out,
\* looked up in, and put back.
objectForKey(key) ==
    LET host_obj == take(dict) IN
    /\ phase = "ready"
    /\ dict' = host_obj.taken
    /\ fe' = Enumeration(host_obj.taken)
    /\ last' = [NoCall EXCEPT !.op = "lookup", !.key = key,
                              !.result = lookup(host_obj.taken, key),
                              !.pre = dict, !.preEnv = env]
    /\ UNCHANGED <<phase, env, inserts, mutable, state>>

\* -[_touchHLE_NSDictionary count]
count ==
    /\ phase = "ready"
    /\ last' = [NoCall EXCEPT !.op = "count", !.result = dict.count,
                              !.pre = dict, !.preEnv = env]
    /\ UNCHANGED <<phase, dict, env, inserts, fe, mutable, state>>

\* -[_touchHLE_NSDictionary allKeys]: the host object is taken out of the
\* object (which is left with the default one) and is not put back.
allKeys ==
    /\ phase = "ready"
    /\ dict' = Default
    /\ fe' = Enumeration(Default)
    /\ last' = [NoCall EXCEPT !.op = "allKeys", !.result = iter_keys(dict),
                              !.pre = dict, !.preEnv = env]
    /\ UNCHANGED <<phase, env, inserts, mutable, state>>

\* CFDictionaryGetKeysAndValues: msg![env; dict allKeys], whose keys are then
\* written to the caller's buffer.
CFDictionaryGetKeysAndValues == allKeys

\* CFDictionarySetValue: msg![env; dict setValue:value forKey:key].
CFDictionarySetValue(key, value) == setValue_forKey(value, key)

\* The (key, value) pairs of all buckets, as build_plist_value_rec reads
\* them.
RECURSIVE flatten_pairs(_, _)
flatten_pairs(self, hashes) ==
    IF hashes = <<>> THEN <<>>
    ELSE self.map[Head(hashes)] \o flatten_pairs(self, Tail(hashes))

\* build_plist_value_rec that does not put the host object back.
build_plist_value_rec_not_put_back ==
    LET dict_host_obj == take(dict)
        key_vals == flatten_pairs(dict_host_obj.taken, dict_host_obj.taken.order)
    IN /\ phase = "ready"
       /\ dict' = dict_host_obj.left
       /\ fe' = Enumeration(dict_host_obj.left)
       /\ phase' = IF \E i \in DOMAIN key_vals : key_vals[i][1] \notin TextObjects
                   THEN "aborted" ELSE phase
       /\ last' = [NoCall EXCEPT !.op = "plist", !.result = key_vals,
                                 !.pre = dict, !.preEnv = env]
       /\ UNCHANGED <<env, inserts, mutable, state>>

\* build_plist_value_rec on an NSMutableDictionary (dataFromPropertyList):
\* the host object is taken out, its pairs are read and it is put back;
\* then the keys are looked at, and one that is no string fails the
\* assertion.
build_plist_value_rec ==
    LET dict_host_obj == take(dict)
        key_vals == flatten_pairs(dict_host_obj.taken, dict_host_obj.taken.order)
    IN /\ phase = "ready"
       /\ dict' = dict_host_obj.taken
       /\ fe' = Enumeration(dict_host_obj.taken)
       /\ phase' = IF \E i \in DOMAIN key_vals : key_vals[i][1] \notin TextObjects
                   THEN "aborted" ELSE phase
       /\ last' = [NoCall EXCEPT !.op = "plist", !.result = key_vals,
                                 !.pre = dict, !.preEnv = env]
       /\ UNCHANGED <<env, inserts, mutable, state>>

\* The caller zeroes its NSFastEnumerationState to enumerate from the top.
enumerate_from_top ==
    /\ phase = "ready"
    /\ fe # NewEnumeration
    /\ fe' = NewEnumeration
    /\ last' = [NoCall EXCEPT !.op = "reset", !.pre = dict, !.preEnv = env]
    /\ UNCHANGED <<phase, dict, env, inserts, mutable, state>>

\* One call of countByEnumeratingWithState:objects:count: with the cursor
\* the previous call left.
countByEnumerating(len) ==
    LET r == countByEnumeratingWithState(dict, fe.state, len) IN
    /\ phase = "ready"
    /\ fe' = [fe EXCEPT !.state = r.state, !.objects = @ \o r.objects,
                        !.ret = r.ret]
    /\ last' = [NoCall EXCEPT !.op = "enumerate", !.value = len,
                              !.result = r.ret, !.pre = dict, !.preEnv = env]
    /\ UNCHANGED <<phase, dict, env, inserts, mutable, state>>

\* -[_touchHLE_NSDictionary dealloc]: the host object is taken out and
\* released.
\* `result` is the count the object shows while the releases are made.
dealloc ==
    LET host_obj == take(dict) IN
    /\ phase = "ready"
    /\ phase' = "dead"
    /\ dict' = host_obj.left
    /\ env' = DictionaryHostObject_release(host_obj.taken, env)
    /\ fe' = Enumeration(host_obj.left)
    /\ last' = [NoCall EXCEPT !.op = "dealloc", !.result = host_obj.left.count,
                              !.pre = dict, !.preEnv = env]
    /\ UNCHANGED <<inserts, mutable, state>>

Next ==
    \/ init
    \/ \E key \in KeyObjects, object \in ValueObjects :
          init_with_objects_and_keys(key, object)
    \/ \E key \in KeyObjects \cup {nil}, object \in ValueObjects :
          dict_from_keys_and_objects(key, object)
    \/ init_with_objects_and_keys_done
    \/ \E key \in KeyObjects, value \in ValueObjects \cup {nil} :
          setValue_forKey(value, key)
    \/ \E key \in KeyObjects, anObject \in ValueObjects :
          setObject_forKey(anObject, key)
    \/ \E key \in KeyObjects \cup {nil} : objectForKey(key)
    \/ count
    \/ \E key \in KeyObjects, value \in ValueObjects \cup {nil} :
          CFDictionarySetValue(key, value)
    \/ allKeys
    \/ CFDictionaryGetKeysAndValues
    \/ enumerate_from_top
    \/ \E len \in 1..MaxLen : countByEnumerating(len)
    \/ dealloc

Spec == Init /\ [][Next]_vars

\* The owner of the mutable key object changes what it holds.
mutate(content) ==
    /\ phase \in {"alloc", "ready"}
    /\ content # mutable
    /\ mutable' = content
    /\ last' = [NoCall EXCEPT !.op = "mutate", !.key = MutableKey,
                              !.pre = dict, !.preEnv = env]
    /\ UNCHANGED <<phase, dict, env, inserts, fe, state>>

\* A dictionary made by init_with_objects_and_keys with the mutable key
\* object and immutable objects of its class for keys, and read by
\* objectForKey: while the mutable key object is changed.
NextCopy ==
    \/ \E key \in {MutableKey} \cup {Literal(c) : c \in 1..NumContents},
          object \in ValueObjects :
          init_with_objects_and_keys(key, object)
    \/ init_with_objects_and_keys_done
    \/ \E key \in TextObjects : objectForKey(key)
    \/ \E content \in 1..NumContents : mutate(content)
    \/ dealloc

SpecCopy == Init /\ [][NextCopy]_vars

\* A dictionary made by init or init_with_objects_and_keys and then
\* enumerated by a caller that goes on calling
\* countByEnumeratingWithState:objects:count: with the cursor the last call
\* left, as a for-in loop does.
NextEnum ==
    \/ init
    \/ \E key \in KeyObjects, object \in ValueObjects :
          init_with_objects_and_keys(key, object)
    \/ init_with_objects_and_keys_done
    \/ \E len \in 1..MaxLen : countByEnumerating(len)

\* An NSMutableDictionary made by init, written by its setters and by
\* CFDictionarySetValue, with NSNumber keys and with a string key, and read
\* by objectForKey: and by build_plist_value_rec.
NextMutable ==
    \/ init
    \/ \E key \in KeyObjects \cup {Literal(1), nil},
          anObject \in ValueObjects \cup {nil} :
          setObject_forKey(anObject, key)
    \/ \E key \in KeyObjects, value \in ValueObjects \cup {nil} :
          setValue_forKey(value, key)
    \/ \E key \in KeyObjects, value \in ValueObjects \cup {nil} :
          CFDictionarySetValue(key, value)
    \/ \E key \in KeyObjects \cup {nil} : objectForKey(key)
    \/ build_plist_value_rec

SpecMutable == Init /\ [][NextMutable]_vars

SpecEnum ==
    /\ Init
    /\ [][NextEnum]_vars
    /\ WF_vars(\E len \in 1..MaxLen : countByEnumerating(len))

\* ------------------------------------------------------------- NSNumber
\* The dictionary variables, which the specifications below leave alone.
dictVars == <<phase, dict, env, inserts, fe, last, mutable>>

InitDict ==
    /\ phase = "alloc"
    /\ dict = Default
    /\ env = NoCalls
    /\ inserts = 0
    /\ fe = NewEnumeration
    /\ last = NoCall
    /\ mutable = 1

\* NSNumberHostObject, the variants that hash and isEqualTo: handle: Bool,
\* Int (i32) and Float (f32).  A Float is held by its bits (what to_bits
\* returns), written at half the width (sign, 5 bits of exponent, 10 of
\* fraction) to stay inside the integers of the model checker: +0.0, -0.0,
\* 1.0 and a NaN.
FloatBits == {0, 32768, 15360, 32256}

NSNumberHostObject ==
    [variant : {"Bool"}, value : {0, 1}]
        \cup [variant : {"Int"}, value : -1..2]
        \cup [variant : {"Float"}, value : FloatBits]

\* a == b on f32: a NaN equals nothing, the two zeroes equal each other.
f32_eq(a, b) ==
    IF a = 32256 \/ b = 32256 THEN FALSE
    ELSE IF a \in {0, 32768} /\ b \in {0, 32768} THEN TRUE
    ELSE a = b

\* -[NSNumber hash] of a host object: hash_helper of the value, of a Float's
\* bits.
NSNumber_hash_of(number) == hash_helper(number.value)

\* -[NSNumber isEqualTo:] between two NSNumber host objects; `identical`
\* when other is the receiver itself.  "unreachable" is the panic of
\* unreachable!().
NSNumber_isEqualTo_of(this, other, identical) ==
    IF identical THEN "true"
    ELSE IF this.variant # other.variant THEN "unreachable"
    ELSE IF this.variant = "Float"
         THEN (IF f32_eq(this.value, other.value) THEN "true" ELSE "false")
    ELSE IF this.value = other.value THEN "true" ELSE "false"

\* Two NSNumber objects, not yet compared or hashed.
InitNumber ==
    /\ InitDict
    /\ \E this \in NSNumberHostObject, other \in NSNumberHostObject,
          identical \in BOOLEAN :
          /\ identical => other = this
          /\ state = [this |-> this, other |-> other, identical |-> identical,
                      isEqualTo |-> "not called", hashes |-> <<>>]

\* [this isEqualTo:other]
isEqualTo_call ==
    /\ state.isEqualTo = "not called"
    /\ state' = [state EXCEPT !.isEqualTo =
                    NSNumber_isEqualTo_of(state.this, state.other, state.identical)]
    /\ UNCHANGED dictVars

\* [this hash] and [other hash]
hash_call ==
    /\ state.hashes = <<>>
    /\ state.isEqualTo # "unreachable"
    /\ state' = [state EXCEPT !.hashes = <<NSNumber_hash_of(state.this),
                                           NSNumber_hash_of(state.other)>>]
    /\ UNCHANGED dictVars

NextNumber == isEqualTo_call \/ hash_call

SpecNumber == InitNumber /\ [][NextNumber]_vars

\* --------------------------------------------------------------- dirent
\* Guest addresses the allocator hands out for DIR structures.
MaxDirs == 2
\* The longest directory listing.
MaxEntries == 3
\* readdir calls made on a stream after its end.
MaxNullReads == 2

DirPtrs == 1..MaxDirs
\* The names a directory can hold, each one byte long, by number.
Names == 1..MaxEntries

\* What env.fs.enumerate can yield for a directory: its entries' names, in
\* some order.
Listings ==
    {vec \in UNION {[1..n -> Names] : n \in 0..MaxEntries} :
        \A i, j \in 1..Len(vec) : vec[i] = vec[j] => i = j}

\* Ptr::null() as the result of readdir, and the dirent it allocates
\* otherwise.
NullDirent == [null |-> TRUE, d_namlen |-> 0, d_name |-> 0]
dirent(str, len) == [null |-> FALSE, d_namlen |-> len, d_name |-> str]

\* HashMap::insert and HashMap::remove on open_dirs, and the same on the
\* allocated DIR structures of guest memory.
map_insert(map, k, v) ==
    [p \in DOMAIN map \cup {k} |-> IF p = k THEN v ELSE map[p]]
map_remove(map, k) == [p \in DOMAIN map \ {k} |-> map[p]]

NoDirCall == [op |-> "none", dirp |-> 0, idx |-> 0, res |-> NullDirent]

\* State::default(): no stream is open.  calls and returned are the history
\* of each stream since its opendir.
InitDirent ==
    /\ InitDict
    /\ state = [module |-> "dirent",
                open_dirs |-> <<>>,
                mem |-> <<>>,
                calls |-> [p \in DirPtrs |-> 0],
                returned |-> [p \in DirPtrs |-> <<>>],
                last |-> NoDirCall]

\* readdir that moves the index on at the end of the listing too.
readdir_advance_at_end(dir, vec) ==
    IF dir.idx + 1 \in DOMAIN vec
    THEN [dir |-> [idx |-> dir.idx + 1],
          res |-> dirent(vec[dir.idx + 1], 1)]
    ELSE [dir |-> [idx |-> dir.idx + 1], res |-> NullDirent]

\* The body of readdir on the DIR read from memory and the stream's
\* listing: vec.get(dir.idx) is the entry at position idx + 1 of the
\* sequence.  Every name here is one byte long.
readdir_of(dir, vec) ==
    IF dir.idx + 1 \in DOMAIN vec
    THEN [dir |-> [idx |-> dir.idx + 1],
          res |-> dirent(vec[dir.idx + 1], 1)]
    ELSE [dir |-> dir, res |-> NullDirent]

\* closedir's open_dirs.remove(&dirp).
closedir_of(open_dirs, dirp) == map_remove(open_dirs, dirp)

\* opendir on a path that is a directory: a DIR with index 0 is allocated at
\* a free address and the listing is registered under it.
opendir(dir, vec) ==
    /\ state.module = "dirent"
    /\ dir \notin DOMAIN state.mem
    /\ state' = [state EXCEPT
                    !.mem = map_insert(@, dir, [idx |-> 0]),
                    !.open_dirs = map_insert(@, dir, vec),
                    !.calls[dir] = 0,
                    !.returned[dir] = <<>>,
                    !.last = [op |-> "opendir", dirp |-> dir, idx |-> 0,
                              res |-> NullDirent]]
    /\ UNCHANGED dictVars

\* opendir on a path that is no directory: null, nothing is registered.
opendir_not_dir ==
    /\ state.module = "dirent"
    /\ state.last.op # "opendir null"
    /\ state' = [state EXCEPT
                    !.last = [op |-> "opendir null", dirp |-> 0, idx |-> 0,
                              res |-> NullDirent]]
    /\ UNCHANGED dictVars

\* readdir on an open stream.  (On any other pointer the unwrap panics.)
readdir(dirp) ==
    /\ state.module = "dirent"
    /\ dirp \in DOMAIN state.open_dirs
    /\ state.calls[dirp] < Len(state.open_dirs[dirp]) + MaxNullReads
    /\ LET r == readdir_of(state.mem[dirp], state.open_dirs[dirp])
       IN  state' = [state EXCEPT
                        !.mem[dirp] = r.dir,
                        !.calls[dirp] = @ + 1,
                        !.returned[dirp] =
                            IF r.res.null THEN @ ELSE Append(@, r.res.d_name),
                        !.last = [op |-> "readdir", dirp |-> dirp,
                                  idx |-> state.mem[dirp].idx, res |-> r.res]]
    /\ UNCHANGED dictVars

\* closedir on an open stream: it leaves open_dirs and its DIR is freed.
closedir(dirp) ==
    /\ state.module = "dirent"
    /\ dirp \in DOMAIN state.open_dirs
    /\ state' = [state EXCEPT
                    !.open_dirs = closedir_of(@, dirp),
                    !.mem = map_remove(@, dirp),
                    !.last = [op |-> "closedir", dirp |-> dirp,
                              idx |-> state.mem[dirp].idx, res |-> NullDirent]]
    /\ UNCHANGED dictVars

NextDirent ==
    \/ \E dir \in DirPtrs, vec \in Listings : opendir(dir, vec)
    \/ opendir_not_dir
    \/ \E dirp \in DirPtrs : readdir(dirp)
    \/ \E dirp \in DirPtrs : closedir(dirp)

SpecDirent == InitDirent /\ [][NextDirent]_vars

\* ----------------------------------------------------------- audio_file
\* Guest addresses the allocator hands out for OpaqueAudioFileID.
MaxHandles == 3

AudioFileIDs == 1..MaxHandles

kAudioFileFileNotFoundError == -43

\* What return_if_null! hands back on a null argument: the macro's status
\* is not fixed here.
EarlyReturns == {-50, 0}

NoAudioCall == [op |-> "none", status |-> 0, handle |-> nil,
                pre |-> {}, registered |-> FALSE]

\* State::default(): no audio file is open.  opened is the history of the
\* handles the open calls produced and AudioFileClose has not been given.
InitAudio ==
    /\ InitDict
    /\ state = [module |-> "audio_file",
                audio_files |-> <<>>,
                out_audio_file |-> nil,
                opened |-> {},
                last |-> NoAudioCall]

\* The status AudioFileOpenURL returns after registering a handle.
AudioFileOpenURL_status == 0

\* The status AudioFileOpenWithCallbacks returns after registering a handle.
AudioFileOpenWithCallbacks_status == -1

\* The status AudioFileClose returns after removing a handle.
AudioFileClose_status == 0

\* The tail both open calls share: a handle is allocated at a free address,
\* registered with its host object, and written to out_audio_file.
register(guest_audio_file, host_object, op, status) ==
    /\ guest_audio_file \notin DOMAIN state.audio_files
    /\ state' = [state EXCEPT
                    !.audio_files = map_insert(@, guest_audio_file, host_object),
                    !.out_audio_file = guest_audio_file,
                    !.opened = @ \cup {guest_audio_file},
                    !.last = [op |-> op, status |-> status,
                              handle |-> guest_audio_file,
                              pre |-> DOMAIN state.audio_files,
                              registered |-> TRUE]]
    /\ UNCHANGED dictVars

\* A call that returns before it touches the registry.
returns_early(op, status) ==
    /\ state.last # [op |-> op, status |-> status, handle |-> nil,
                     pre |-> DOMAIN state.audio_files, registered |-> FALSE]
    /\ state' = [state EXCEPT
                    !.last = [op |-> op, status |-> status, handle |-> nil,
                              pre |-> DOMAIN state.audio_files,
                              registered |-> FALSE]]
    /\ UNCHANGED dictVars

\* AudioFileOpenURL with read permission and no type hint: a null URL
\* returns early, a file that cannot be read is not found, any other is
\* opened.
AudioFileOpenURL(in_file_ref, readable, guest_audio_file) ==
    /\ state.module = "audio_file"
    /\ IF in_file_ref = nil
       THEN \E status \in EarlyReturns : returns_early("AudioFileOpenURL", status)
       ELSE IF ~readable
       THEN returns_early("AudioFileOpenURL", kAudioFileFileNotFoundError)
       ELSE register(guest_audio_file, "url", "AudioFileOpenURL",
                     AudioFileOpenURL_status)

\* AudioFileOpenWithCallbacks with read and size callbacks that succeed.
AudioFileOpenWithCallbacks(guest_audio_file) ==
    /\ state.module = "audio_file"
    /\ register(guest_audio_file, "callbacks", "AudioFileOpenWithCallbacks",
                AudioFileOpenWithCallbacks_status)

\* AudioFileClose: null returns early; a registered handle leaves the
\* registry and is freed.  (On any other handle the unwrap panics.)
AudioFileClose(in_audio_file) ==
    /\ state.module = "audio_file"
    /\ IF in_audio_file = nil
       THEN \E status \in EarlyReturns : returns_early("AudioFileClose", status)
       ELSE /\ in_audio_file \in DOMAIN state.audio_files
            /\ state' = [state EXCEPT
                            !.audio_files = map_remove(@, in_audio_file),
                            !.opened = @ \ {in_audio_file},
                            !.last = [op |-> "AudioFileClose",
                                      status |-> AudioFileClose_status,
                                      handle |-> in_audio_file,
                                      pre |-> DOMAIN state.audio_files,
                                      registered |-> FALSE]]
            /\ UNCHANGED dictVars

NextAudio ==
    \/ \E in_file_ref \in {nil, 1}, readable \in BOOLEAN,
          guest_audio_file \in AudioFileIDs :
          AudioFileOpenURL(in_file_ref, readable, guest_audio_file)
    \/ \E guest_audio_file \in AudioFileIDs :
          AudioFileOpenWithCallbacks(guest_audio_file)
    \/ \E in_audio_file \in AudioFileIDs \cup {nil} :
          AudioFileClose(in_audio_file)

SpecAudio == InitAudio /\ [][NextAudio]_vars

\* ------------------------------------------------------ what the claims use
\* The keys a host object stores.
StoredKeys(self) == {iter_keys(self)[i] : i \in DOMAIN iter_keys(self)}

\* `key` is identical or equal to a key the host object stores.
HasEqualKey(self, key) ==
    \E k \in StoredKeys(self) : k = key \/ isEqualTo(k, key)

Same(k1, k2) == k1 = k2 \/ isEqualTo(k1, k2)

RECURSIVE SumOver(_, _)
SumOver(f, S) ==
    IF S = {} THEN 0
    ELSE LET x == CHOOSE y \in S : TRUE IN f[x] + SumOver(f, S \ {x})

\* The entries of all buckets together, and those whose value is an object.
Entries(self) == SumOver([h \in DOMAIN self.map |-> Len(self.map[h])], DOMAIN self.map)

ValuedEntries(self) ==
    SumOver([h \in DOMAIN self.map |->
                Cardinality({i \in 1..Len(self.map[h]) : self.map[h][i][2] # nil})],
            DOMAIN self.map)

\* The stored keys up to equality.
DistinctKeys(self) ==
    {{k2 \in StoredKeys(self) : Same(k, k2)} : k \in StoredKeys(self)}

\* References taken less references given back, over a set of objects.
Held(e, S) == SumOver([o \in S |-> e.retains[o] - e.releases[o]], S)

\* The last call was an insert of a key of which an equal was stored.
Overwrote == last.op = "insert" /\ HasEqualKey(last.pre, last.key)

Appended == last.op = "insert" /\ ~HasEqualKey(last.pre, last.key)

\* ------------------------------------------------------------------ claims

C4_CollisionTolerance ==
    last.op = "insert" =>
        /\ lookup(dict, last.key) = last.value
        /\ \A k2 \in KeyObjects :
              (hash(k2) = hash(last.key) /\ ~Same(k2, last.key)) =>
                  lookup(dict, k2) = lookup(last.pre, k2)

\* An overwrite of k1 while an unequal k2 of the same hash holds another
\* value.
C4_Witness ==
    /\ Overwrote
    /\ last.value \in ValueObjects
    /\ \E k2 \in KeyObjects :
          /\ hash(k2) = hash(last.key)
          /\ ~Same(k2, last.key)
          /\ lookup(dict, k2) \in ValueObjects
          /\ lookup(dict, k2) # last.value
          /\ lookup(dict, last.key) = last.value

\* C5 (insert durability): the value looked up for a stored key stays the
\* same over every call other than an insert of an equal key and dealloc.
C5_InsertDurability ==
    \A k \in KeyObjects :
        (/\ HasEqualKey(last.pre, k)
         /\ last.op # "dealloc"
         /\ ~(last.op = "insert" /\ Same(k, last.key)))
        => lookup(dict, k) = lookup(last.pre, k)

\* C6 (batch enumeration completeness): an enumeration from cursor 0 of an
\* unchanged dictionary that has come to a call returning 0 has produced
\* count keys, none of them twice.
C6_EnumerationComplete ==
    fe.ret = 0 =>
        /\ Len(fe.objects) = dict.count
        /\ \A i, j \in DOMAIN fe.objects : i # j => fe.objects[i] # fe.objects[j]

\* C7 (no duplicate keys): no bucket holds two entries whose keys are
\* identical or equal.
C7_NoDuplicateKeys ==
    \A h \in DOMAIN dict.map :
        \A i, j \in 1..Len(dict.map[h]) :
            i # j => ~Same(dict.map[h][i][1], dict.map[h][j][1])

\* A bucket of two entries, the last insert an overwrite through an equal
\* key object that is not the stored one.
C7_Witness ==
    /\ Overwrote
    /\ last.key \notin StoredKeys(dict)
    /\ \E h \in DOMAIN dict.map : Len(dict.map[h]) = 2

\* C8: an overwriting insert retains no key and copies none; it retains the
\* new value once and releases the old value once, and that is all.
C8_OverwriteTakesNoKeyReference ==
    Overwrote =>
        /\ \A k \in KeyObjects :
              /\ env.retains[k] = last.preEnv.retains[k]
              /\ env.copies[k] = last.preEnv.copies[k]
              /\ env.releases[k] = last.preEnv.releases[k]
        /\ Held(env, ValueObjects) - Held(last.preEnv, ValueObjects)
              = ValuedEntries(dict) - ValuedEntries(last.pre)

\* C9 (reference ownership): over every insert, the references the
\* dictionary holds on keys change as the number of entries does, and those
\* it holds on values as the number of entries with a value does.
C9_ReferenceOwnership ==
    last.op = "insert" =>
        /\ Held(env, KeyObjects) - Held(last.preEnv, KeyObjects)
              = Entries(dict) - Entries(last.pre)
        /\ Held(env, ValueObjects) - Held(last.preEnv, ValueObjects)
              = ValuedEntries(dict) - ValuedEntries(last.pre)

\* C10: an overwrite releases the value it replaces once and no other
\* value; no other call than dealloc releases a value.
C10_OldValueReleasedOnce ==
    /\ Overwrote =>
          \A o \in ValueObjects :
              env.releases[o] = last.preEnv.releases[o]
                  + (IF o = lookup(last.pre, last.key) THEN 1 ELSE 0)
    /\ (~Overwrote /\ last.op # "dealloc") =>
          \A o \in ValueObjects : env.releases[o] = last.preEnv.releases[o]

\* An overwrite of a stored object, released for the first time.
C10_Witness ==
    /\ Overwrote
    /\ lookup(last.pre, last.key) \in ValueObjects
    /\ env.releases[lookup(last.pre, last.key)] = 1
    /\ last.preEnv.releases[lookup(last.pre, last.key)] = 0

\* The entries of a host object that hold the object o as their key, and as
\* their value.
KeyEntries(self, o) ==
    SumOver([h \in DOMAIN self.map |->
                Cardinality({i \in 1..Len(self.map[h]) : self.map[h][i][1] = o})],
            DOMAIN self.map)

ValueEntries(self, o) ==
    SumOver([h \in DOMAIN self.map |->
                Cardinality({i \in 1..Len(self.map[h]) : self.map[h][i][2] = o})],
            DOMAIN self.map)

Released(S) == SumOver([o \in S |-> env.releases[o] - last.preEnv.releases[o]], S)

\* C11 (release-all exactness): release on a host object of n entries
\* releases n keys and n values, each object once for every entry that
\* holds it, however the entries lie in the buckets (the release of a nil
\* key or value is a call without effect); it retains and copies nothing.
C11_ReleaseAllExact ==
    last.op = "dealloc" =>
        /\ Released(KeyObjects) = last.pre.count - KeyEntries(last.pre, nil)
        /\ Released(ValueObjects) = last.pre.count - ValueEntries(last.pre, nil)
        /\ \A k \in KeyObjects :
              env.releases[k] - last.preEnv.releases[k] = KeyEntries(last.pre, k)
        /\ \A o \in ValueObjects :
              env.releases[o] - last.preEnv.releases[o] = ValueEntries(last.pre, o)
        /\ env.retains = last.preEnv.retains
        /\ env.copies = last.preEnv.copies

\* A release of three entries, two of them in one bucket.
C11_Witness ==
    /\ last.op = "dealloc"
    /\ last.pre.count = 3
    /\ Cardinality(DOMAIN last.pre.map) = 2
    /\ Released(KeyObjects) = 3
    /\ Released(ValueObjects) = 3

\* C12 (destruction releases once): dealloc releases the key and the value
\* of every entry once; the object holds the empty host object (count 0)
\* while the releases are made and after them, so that a release of what the
\* object holds then releases nothing.
C12_DeallocReleasesOnce ==
    last.op = "dealloc" =>
        /\ \A o \in Objects :
              env.releases[o] - last.preEnv.releases[o]
                  = KeyEntries(last.pre, o) + ValueEntries(last.pre, o)
        /\ last.result = 0
        /\ dict.count = 0
        /\ DictionaryHostObject_release(dict, env) = env

\* A dealloc of a dictionary that held one object as the value of two
\* entries: the object is released twice, the keys once each.
C12_Witness ==
    /\ last.op = "dealloc"
    /\ last.pre.count = 2
    /\ \E o \in ValueObjects :
          /\ ValueEntries(last.pre, o) = 2
          /\ env.releases[o] = last.preEnv.releases[o] + 2
    /\ dict.count = 0

\* C13 (lookup is a pure read): objectForKey: issues no retain, copy or
\* release on any object and leaves the host object, its buckets and count,
\* as it was before the call.
C13_LookupPureRead ==
    last.op = "lookup" =>
        /\ env = last.preEnv
        /\ dict = last.pre
        /\ dict.map = last.pre.map
        /\ dict.count = last.pre.count

\* A lookup that found a value in a bucket of two entries, through a key
\* object equal to the stored one.
C13_Witness ==
    /\ last.op = "lookup"
    /\ last.result \in ValueObjects
    /\ last.key \notin StoredKeys(dict)
    /\ Len(dict.map[hash(last.key)]) = 2
    /\ dict.count >= 2
    /\ env = last.preEnv

\* C14 (lookup of an absent key): lookup returns nil for every key to which
\* no stored key is identical or equal, whether or not there is a bucket
\* for the key's hash.
C14_AbsentKeyIsNil ==
    /\ \A key \in KeyObjects \cup {nil} :
          ~HasEqualKey(dict, key) => lookup(dict, key) = nil
    /\ (last.op = "lookup" /\ ~HasEqualKey(last.pre, last.key)) =>
          last.result = nil

\* A lookup that returned nil from a bucket holding only unequal keys with
\* values, while another absent key has no bucket at all.
C14_Witness ==
    /\ last.op = "lookup"
    /\ last.key \in KeyObjects
    /\ hash(last.key) \in DOMAIN dict.map
    /\ \A i \in 1..Len(dict.map[hash(last.key)]) :
          dict.map[hash(last.key)][i][2] \in ValueObjects
    /\ ~HasEqualKey(dict, last.key)
    /\ last.result = nil
    /\ \E k2 \in KeyObjects :
          hash(k2) \notin DOMAIN dict.map /\ lookup(dict, k2) = nil

ImmutableText == TextObjects \ {MutableKey}

Received(e) == {e.objects[i] : i \in DOMAIN e.objects}

\* C17 (batch size and cursor update): a call with capacity len returns r
\* with 0 <= r <= len, writes r keys, and leaves the cursor at its value
\* before the call plus r.
C17_BatchAndCursor ==
    [][last'.op = "enumerate" =>
          /\ fe'.ret >= 0
          /\ fe'.ret <= last'.value
          /\ Len(fe'.objects) = Len(fe.objects) + fe'.ret
          /\ fe'.state = fe.state + fe'.ret]_vars

\* Two calls with capacity 1 on a dictionary of two buckets: the second
\* call began at cursor 1, wrote one key and left the cursor at 2.
C17_Witness ==
    /\ last.op = "enumerate"
    /\ last.value = 1
    /\ last.result = 1
    /\ fe.state = 2
    /\ Len(fe.objects) = 2

\* C18 (enumeration terminates without restarting): while the dictionary
\* is not changed the cursor never passes the last bucket and every call
\* that returns keys moves it forward, so a caller that goes on calling
\* comes to a call returning 0; no call writes a key an earlier call of the
\* enumeration wrote; and a call after one that returned 0 returns 0.
C18_TerminatesWithoutRestart ==
    /\ [](fe.state <= Len(dict.order))
    /\ [][last'.op = "enumerate" =>
             /\ fe'.ret > 0 => fe'.state > fe.state
             /\ \A i \in (Len(fe.objects) + 1)..Len(fe'.objects) :
                   fe'.objects[i] \notin Received(fe)
             /\ fe.ret = 0 => fe'.ret = 0]_vars
    /\ (phase = "ready") ~> (fe.ret = 0)

\* An enumeration in batches of one that has come to its end at the third
\* call, having received two keys.
C18_Witness ==
    /\ last.op = "enumerate"
    /\ last.value = 1
    /\ fe.ret = 0
    /\ fe.state = 2
    /\ Len(fe.objects) = 2

\* The number of places at which a sequence of keys holds the key k.
Places(keys, k) == Cardinality({p \in DOMAIN keys : keys[p] = k})

\* iter_keys of the host object yields as many keys as it has entries, and
\* the key of every entry of every bucket at one place.
Complete(keys, self) ==
    /\ Len(keys) = self.count
    /\ Len(keys) = Entries(self)
    /\ \A h \in DOMAIN self.map :
          \A i \in 1..Len(self.map[h]) : Places(keys, self.map[h][i][1]) = 1

\* C19 (key iteration is complete and finite): iter_keys on a host object
\* of n entries yields n keys, the key of every entry once, over all
\* buckets; so does allKeys, which collects them.
C19_IterKeysComplete ==
    /\ Complete(iter_keys(dict), dict)
    /\ last.op = "allKeys" => Complete(last.result, last.pre)

\* allKeys of a dictionary of three entries in two buckets returned three
\* keys.
C19_Witness ==
    /\ last.op = "allKeys"
    /\ last.pre.count = 3
    /\ Cardinality(DOMAIN last.pre.map) = 2
    /\ Len(last.result) = 3

\* C20 (iteration order is stable): of two key iterations one right after
\* the other the second yields the keys the first did, in the same order;
\* and whatever an enumeration in batches has received, position i is the
\* key of the i-th bucket in the order of the dictionary.
C20_IterationOrderStable ==
    /\ [][(last.op = "allKeys" /\ last'.op = "allKeys") =>
             last'.result = last.result]_vars
    /\ [](\A i \in DOMAIN fe.objects :
             fe.objects[i] = dict.map[dict.order[i]][1][1])

\* C21 (dict_from_keys_and_objects copies and retains): while the pairs are
\* inserted, each with the key copied, the references taken less those
\* given back are, for every object, one for each entry that holds it as
\* its key or as its value: once the caller has released its own, the
\* container's references are all there are.
C21_ContainerReferencesOnly ==
    phase = "building" =>
        \A o \in Objects :
            env.retains[o] - env.releases[o]
                = KeyEntries(dict, o) + ValueEntries(dict, o)

\* C22 (allKeys is read-only): after allKeys, also when called by
\* CFDictionaryGetKeysAndValues, count and the objectForKey: of every key
\* are what they were before, and the array holds count keys.
C22_AllKeysReadOnly ==
    last.op = "allKeys" =>
        /\ dict.count = last.pre.count
        /\ \A k \in KeyObjects \cup {nil} : lookup(dict, k) = lookup(last.pre, k)
        /\ Len(last.result) = dict.count

\* The keys of a bucket, in its order.
BucketKeys(self, h) == [i \in 1..Len(self.map[h]) |-> self.map[h][i][1]]

FirstInOrder(collisions, key) ==
    CHOOSE i \in 1..Len(collisions) :
        /\ Same(collisions[i][1], key)
        /\ \A j \in 1..(i - 1) : ~Same(collisions[j][1], key)

\* C24 (buckets keep insertion order): a new key goes to the end of its
\* bucket, an overwrite moves no entry, and lookup returns the value of the
\* first entry in that order whose key matches.
C24_BucketInsertionOrder ==
    /\ (Appended /\ hash(last.key) \in DOMAIN last.pre.map) =>
          dict.map[hash(last.key)]
              = Append(last.pre.map[hash(last.key)], <<last.key, last.value>>)
    /\ last.op = "insert" =>
          \A h \in DOMAIN last.pre.map :
              \A i \in 1..Len(last.pre.map[h]) :
                  dict.map[h][i][1] = last.pre.map[h][i][1]
    /\ \A k \in KeyObjects \cup {nil} :
          HasEqualKey(dict, k) =>
              lookup(dict, k)
                  = dict.map[hash(k)][FirstInOrder(dict.map[hash(k)], k)][2]

\* A third key appended to a bucket of two, and found there.
C24_Witness ==
    /\ Appended
    /\ last.value \in ValueObjects
    /\ Len(dict.map[hash(last.key)]) = 3
    /\ dict.map[hash(last.key)][3] = <<last.key, last.value>>
    /\ lookup(dict, last.key) = last.value

\* C25 (setObject:forKey: asserts first): a call with a nil object or a nil
\* key ends at the assertion with the dictionary's entries and count and
\* every reference count as they were before the call.
C25_AbortLeavesAllUntouched ==
    last.op = "abort" =>
        /\ phase = "aborted"
        /\ last.key = nil \/ last.value = nil
        /\ dict = last.pre
        /\ dict.count = last.pre.count
        /\ env = last.preEnv

\* setObject:nil forKey:k on a dictionary that holds an entry for k.
C25_Witness ==
    /\ last.op = "abort"
    /\ last.value = nil
    /\ last.key \in KeyObjects
    /\ lookup(dict, last.key) \in ValueObjects
    /\ phase = "aborted"

\* C26 (every counted key has a value): objectForKey: returns an object for
\* every key that key iteration yields, and count is the number of keys
\* whose lookup is not nil.
C26_EveryKeyHasValue ==
    /\ \A k \in StoredKeys(dict) : lookup(dict, k) # nil
    /\ dict.count = Cardinality({k \in StoredKeys(dict) : lookup(dict, k) # nil})

\* C27 (build_plist_value_rec leaves the dictionary unchanged): the pairs
\* read are those of all entries, and count, entries and reference counts
\* after the call are those before it, also when a key fails the
\* assertion.
C27_PlistLeavesUnchanged ==
    last.op = "plist" =>
        /\ dict = last.pre
        /\ dict.count = last.pre.count
        /\ env = last.preEnv
        /\ Len(last.result) = dict.count
        /\ \A h \in DOMAIN dict.map :
              \A i \in 1..Len(dict.map[h]) :
                  \E p \in DOMAIN last.result : last.result[p] = dict.map[h][i]

\* A dictionary of one string key serialised, and gone on with.
C27_Witness ==
    /\ last.op = "plist"
    /\ phase = "ready"
    /\ dict.count = 1
    /\ Len(last.result) = 1
    /\ last.result[1][2] \in ValueObjects

\* C28 (NSNumber equality is total and agrees with hash): isEqualTo:
\* between any two NSNumber objects of the Bool, Int and Float variants
\* answers true or false, and two numbers for which it answers true have
\* the same hash.
C28_EqualityTotalAndHashed ==
    /\ state.isEqualTo \in {"not called", "true", "false"}
    /\ (state.isEqualTo = "true" /\ state.hashes # <<>>) =>
          state.hashes[1] = state.hashes[2]

\* The smaller of two numbers.
Min(a, b) == IF a < b THEN a ELSE b

\* C29 (directory stream sequence): on an open stream over a listing of n
\* entries, after k readdir calls the index is min(k, n) and the entries
\* handed out are the first min(k, n) of the listing in its order; a readdir
\* at an index below n returns that entry and moves the index on by one, a
\* readdir at index n returns null and leaves the index; after closedir the
\* stream is not in open_dirs.
C29_StreamSequence ==
    /\ \A p \in DOMAIN state.open_dirs :
          LET vec == state.open_dirs[p]
              k == Min(state.calls[p], Len(vec))
          IN  /\ state.mem[p].idx = k
              /\ state.returned[p] = SubSeq(vec, 1, k)
    /\ state.last.op = "readdir" =>
          LET p == state.last.dirp
              vec == state.open_dirs[p]
          IN  IF state.last.idx < Len(vec)
              THEN /\ ~state.last.res.null
                   /\ state.last.res.d_name = vec[state.last.idx + 1]
                   /\ state.mem[p].idx = state.last.idx + 1
              ELSE /\ state.last.res.null
                   /\ state.mem[p].idx = state.last.idx
    /\ state.last.op = "closedir" =>
          state.last.dirp \notin DOMAIN state.open_dirs

\* A stream of three entries read past its end while another stream is
\* open: the last readdir returned null.
C29_Witness ==
    /\ state.last.op = "readdir"
    /\ state.last.res.null
    /\ Len(state.open_dirs[state.last.dirp]) = MaxEntries
    /\ state.calls[state.last.dirp] = MaxEntries + MaxNullReads
    /\ DOMAIN state.open_dirs = DirPtrs

\* C30 (audio file handle lifecycle): the handles in audio_files are those
\* an open call produced and AudioFileClose has not been given; an open call
\* that registers a new handle returns 0 and has written the handle to
\* out_audio_file; AudioFileClose on a handle removes that handle alone and
\* returns 0.
C30_HandleLifecycle ==
    /\ DOMAIN state.audio_files = state.opened
    /\ state.last.registered =>
          /\ state.last.status = 0
          /\ state.out_audio_file = state.last.handle
          /\ DOMAIN state.audio_files = state.last.pre \cup {state.last.handle}
    /\ (state.last.op = "AudioFileClose" /\ state.last.handle # nil) =>
          /\ state.last.status = 0
          /\ DOMAIN state.audio_files = state.last.pre \ {state.last.handle}

====
